---- MODULE Spec2Model ----
(***************************************************************************)
(* VillageRide map.js: the DOMContentLoaded handler that builds the map,   *)
(* renders the rides / requests overlays, and wires the "from"/"to" mode   *)
(* buttons and the map click handler with its reverse-geocoding lookup.    *)
(*                                                                         *)
(* Coordinates are integers in micro-degrees (42.8 degrees = 42800000), so *)
(* that Number -> String conversions (toFixed(5), field.value = number)    *)
(* are computed digit by digit.                                            *)
(***************************************************************************)
EXTENDS Integers, Sequences, FiniteSets, TLC

VARIABLES
    mapEl,        \* document.getElementById("map") is non-null
    leaflet,      \* window.L is truthy
    containerBusy,\* L.map(mapEl) throws (container already holds a map)
    ridesData,    \* window.ridesData
    requestsData, \* window.requestsData
    pc,           \* position of the load handler: loading / ready / disabled / failed
    raised,       \* an exception left the DOMContentLoaded handler
    map,          \* the Leaflet map: created, tile layer, viewport, click handler
    ridesLayer,   \* polylines added to ridesLayer, in order
    requestsLayer,\* circle markers added to requestsLayer, in order
    bounds,       \* L.latLngBounds([]) as extended so far
    btns,         \* which of fromBtn / toBtn exist in the page
    btnHandlers,  \* mode buttons that carry a click listener
    pillActive,   \* mode buttons that carry the class "pill-active"
    currentMode,  \* let currentMode
    markers,      \* fromMarker / toMarker with fromMarkerAdded / toMarkerAdded
    dom,          \* value of every form field that exists in the page
    clicks        \* one entry per map click: its mode, coordinates, the DOM
                  \* writes made for it so far, and its lookup

vars == <<mapEl, leaflet, containerBusy, ridesData, requestsData, pc, raised,
          map, ridesLayer, requestsLayer, bounds, btns, btnHandlers,
          pillActive, currentMode, markers, dom, clicks>>

envVars == <<mapEl, leaflet, containerBusy, ridesData, requestsData, btns>>

renderVars == <<map, ridesLayer, requestsLayer, bounds>>

(***************************************************************************)
(* Bounds of the model.                                                    *)
(***************************************************************************)
MaxClicks == 2

MaxGeoClicks == 1

MaxRides == 2

MaxRequests == 1

(***************************************************************************)
(* Program constants.                                                      *)
(***************************************************************************)
DEFAULT_CENTER == <<42780000, 23780000>>

DEFAULT_ZOOM == 12

Modes == {"from", "to"}

Other(m) == IF m = "from" THEN "to" ELSE "from"

(***************************************************************************)
(* Number -> String, as JavaScript does it.                                *)
(***************************************************************************)
Abs(v) == IF v < 0 THEN -v ELSE v

Sign(v) == IF v < 0 THEN "-" ELSE ""

RECURSIVE Pad(_, _)
\* n in decimal, zero-padded on the left to w digits
Pad(n, w) == IF w = 0 THEN "" ELSE Pad(n \div 10, w - 1) \o ToString(n % 10)

RECURSIVE Frac(_, _)
\* the w-digit fraction f without its trailing zeros (f # 0)
Frac(f, w) == IF f % 10 = 0 THEN Frac(f \div 10, w - 1) ELSE Pad(f, w)

\* Number.prototype.toFixed(5): round half away from zero to 1e-5, 5 digits
toFixed5(v) ==
    LET r == (Abs(v) + 5) \div 10
    IN  Sign(v) \o ToString(r \div 100000) \o "." \o Pad(r % 100000, 5)

\* String(number): shortest decimal form, no trailing zeros
NumberToString(v) ==
    LET i == Abs(v) \div 1000000
        f == Abs(v) % 1000000
    IN  Sign(v) \o ToString(i) \o (IF f = 0 THEN "" ELSE "." \o Frac(f, 6))

(***************************************************************************)
(* The data feed: window.ridesData / window.requestsData.  A coordinate is  *)
(* <<v>> when present and <<>> when null or undefined; isNull marks an      *)
(* array element that is itself null.                                      *)
(***************************************************************************)
Ride(flat, flng, tlat, tlng, type) ==
    [isNull |-> FALSE, from_lat |-> flat, from_lng |-> flng,
     to_lat |-> tlat, to_lng |-> tlng, ride_type |-> type]

NullRide == [Ride(<<>>, <<>>, <<>>, <<>>, "") EXCEPT !.isNull = TRUE]

\* a request record with only its origin coordinates: every other field missing
Request(flat, flng) ==
    [isNull |-> FALSE, from_lat |-> flat, from_lng |-> flng,
     passenger |-> <<>>, to_location |-> <<>>, note |-> <<>>, phone |-> <<>>]

\* the same record with its other fields filled in
RequestFilled(flat, flng) ==
    [Request(flat, flng) EXCEPT !.passenger = <<"Ivan">>,
                                !.to_location = <<"Sofia">>,
                                !.note = <<"two bags">>,
                                !.phone = <<"0888123456">>]

NullRequest == [Request(<<>>, <<>>) EXCEPT !.isNull = TRUE]

Feed(isArray, items) == [isArray |-> isArray, items |-> items]

RideA == Ride(<<42700000>>, <<23700000>>, <<42900000>>, <<23650000>>, "work")

RideNoTo == Ride(<<42750000>>, <<23900000>>, <<>>, <<23950000>>, "school")

RequestA == Request(<<42600000>>, <<23800000>>)

RequestNoLat == Request(<<>>, <<23800000>>)

\* the pages' data: <<window.ridesData, window.requestsData>>
Feeds ==
    { <<Feed(TRUE, <<>>), Feed(FALSE, <<>>)>>,
      <<Feed(TRUE, <<RideA, RideNoTo>>), Feed(TRUE, <<RequestA, RequestNoLat>>)>>,
      <<Feed(TRUE, <<RideA, NullRide>>), Feed(TRUE, <<RequestA>>)>>,
      <<Feed(TRUE, <<RideA>>), Feed(TRUE, <<RequestA, NullRequest>>)>> }

(***************************************************************************)
(* LayerRenderer: lines 24-112.                                            *)
(***************************************************************************)
\* Array.isArray(window.ridesData) ? window.ridesData : []
arrayOrEmpty(feed) == IF feed.isArray THEN feed.items ELSE <<>>

\* L.latLngBounds([]) : no corners yet
emptyBounds == [valid |-> FALSE, sw |-> <<0, 0>>, ne |-> <<0, 0>>]

Min(a, b) == IF a < b THEN a ELSE b

Max(a, b) == IF a > b THEN a ELSE b

\* bounds.extend that only ever grows the north-east corner
extendMaxOnly(b, p) ==
    IF ~b.valid
    THEN [valid |-> TRUE, sw |-> p, ne |-> p]
    ELSE [valid |-> TRUE,
          sw |-> b.sw,
          ne |-> <<Max(b.ne[1], p[1]), Max(b.ne[2], p[2])>>]

\* bounds.extend(latlng)
extend(b, p) ==
    IF ~b.valid
    THEN [valid |-> TRUE, sw |-> p, ne |-> p]
    ELSE [valid |-> TRUE,
          sw |-> <<Min(b.sw[1], p[1]), Min(b.sw[2], p[2])>>,
          ne |-> <<Max(b.ne[1], p[1]), Max(b.ne[2], p[2])>>]

\* rideTypeColors[r.ride_type] || "#6b7280"
rideColor(type) ==
    CASE type = "work" -> "#2563eb"
      [] type = "school" -> "#16a34a"
      [] type = "healthcare" -> "#dc2626"
      [] OTHER -> "#6b7280"

RECURSIVE ridesForEachFalsy(_, _, _)
\* rides.forEach with the guard written !r.from_lat || ... : a 0 is skipped too
ridesForEachFalsy(rs, lines, b) ==
    IF rs = <<>>
    THEN [threw |-> FALSE, lines |-> lines, bounds |-> b]
    ELSE LET r == Head(rs)
         IN  IF r.isNull
             THEN [threw |-> TRUE, lines |-> lines, bounds |-> b]
             ELSE IF r.from_lat \in {<<>>, <<0>>} \/ r.from_lng \in {<<>>, <<0>>}
                     \/ r.to_lat \in {<<>>, <<0>>} \/ r.to_lng \in {<<>>, <<0>>}
             THEN ridesForEachFalsy(Tail(rs), lines, b)
             ELSE LET from == <<r.from_lat[1], r.from_lng[1]>>
                      to == <<r.to_lat[1], r.to_lng[1]>>
                      line == [from |-> from, to |-> to,
                               color |-> rideColor(r.ride_type)]
                  IN  ridesForEachFalsy(Tail(rs), Append(lines, line),
                                        extend(extend(b, from), to))

RECURSIVE ridesForEach(_, _, _)
\* rides.forEach(...): reading r.from_lat of a null element throws
ridesForEach(rs, lines, b) ==
    IF rs = <<>>
    THEN [threw |-> FALSE, lines |-> lines, bounds |-> b]
    ELSE LET r == Head(rs)
         IN  IF r.isNull
             THEN [threw |-> TRUE, lines |-> lines, bounds |-> b]
             ELSE IF r.from_lat = <<>> \/ r.from_lng = <<>>
                     \/ r.to_lat = <<>> \/ r.to_lng = <<>>
             THEN ridesForEach(Tail(rs), lines, b)
             ELSE LET from == <<r.from_lat[1], r.from_lng[1]>>
                      to == <<r.to_lat[1], r.to_lng[1]>>
                      line == [from |-> from, to |-> to,
                               color |-> rideColor(r.ride_type)]
                  IN  ridesForEach(Tail(rs), Append(lines, line),
                                   extend(extend(b, from), to))

\* popupHtml of a request, lines 92-103: the parts that depend on optional
\* fields ("Patnik" and "Do" stand for the Cyrillic placeholders)
requestPopup(req) ==
    [passenger |-> IF req.passenger \notin {<<>>, <<"">>}
                   THEN req.passenger[1] ELSE "Patnik",
     to_location |-> IF req.to_location \notin {<<>>, <<"">>}
                     THEN req.to_location[1] ELSE "Do",
     note |-> IF req.note \notin {<<>>, <<"">>} THEN req.note[1] ELSE "",
     tel |-> IF req.phone \notin {<<>>, <<"">>} THEN req.phone[1] ELSE ""]

RECURSIVE requestsForEachNeedsDest(_, _, _)
\* requests.forEach that also skips a request without to_location
requestsForEachNeedsDest(rs, pts, b) ==
    IF rs = <<>>
    THEN [threw |-> FALSE, markers |-> pts, bounds |-> b]
    ELSE LET req == Head(rs)
         IN  IF req.isNull
             THEN [threw |-> TRUE, markers |-> pts, bounds |-> b]
             ELSE IF req.from_lat = <<>> \/ req.from_lng = <<>>
                     \/ req.to_location = <<>>
             THEN requestsForEachNeedsDest(Tail(rs), pts, b)
             ELSE LET from == <<req.from_lat[1], req.from_lng[1]>>
                      marker == [at |-> from, popup |-> requestPopup(req)]
                  IN  requestsForEachNeedsDest(Tail(rs), Append(pts, marker),
                                               extend(b, from))

RECURSIVE requestsForEach(_, _, _)
\* requests.forEach(...)
requestsForEach(rs, pts, b) ==
    IF rs = <<>>
    THEN [threw |-> FALSE, markers |-> pts, bounds |-> b]
    ELSE LET req == Head(rs)
         IN  IF req.isNull
             THEN [threw |-> TRUE, markers |-> pts, bounds |-> b]
             ELSE IF req.from_lat = <<>> \/ req.from_lng = <<>>
             THEN requestsForEach(Tail(rs), pts, b)
             ELSE LET from == <<req.from_lat[1], req.from_lng[1]>>
                      marker == [at |-> from, popup |-> requestPopup(req)]
                  IN  requestsForEach(Tail(rs), Append(pts, marker),
                                      extend(b, from))

\* the map before L.map(mapEl) ran
noMap ==
    [created |-> FALSE, tiles |-> FALSE, groups |-> {}, clickHandler |-> FALSE,
     view |-> [kind |-> "none", center |-> <<>>, zoom |-> 0, box |-> emptyBounds]]

\* L.map(mapEl).setView(DEFAULT_CENTER, DEFAULT_ZOOM)
setView(m, center, zoom) ==
    [m EXCEPT !.created = TRUE,
              !.view = [kind |-> "setView", center |-> center, zoom |-> zoom,
                        box |-> emptyBounds]]

\* if (bounds.isValid()) map.fitBounds(bounds, { padding: [24, 24] })
fitIfValid(m, b) ==
    IF b.valid
    THEN [m EXCEPT !.view = [kind |-> "fitBounds", center |-> <<>>, zoom |-> 0,
                             box |-> b]]
    ELSE m

(***************************************************************************)
(* CaptureModeController: lines 115-144 and 166-171, 227-239.              *)
(***************************************************************************)
\* updateModeUi() that never removes the class
updateModeUiAddOnly(pills, present, mode) ==
    pills \cup {b \in present : b = mode}

\* updateModeUi with classList.toggle on the button of the current mode
updateModeUiFlip(pills, present, mode) ==
    LET own == {b \in present : b = mode}
    IN  ((pills \ own) \cup (own \ pills)) \ {b \in present : b # mode}

\* updateModeUi(): every existing button gets or loses "pill-active"
updateModeUi(pills, present, mode) ==
    (pills \cup {b \in present : b = mode}) \ {b \in present : b # mode}

\* fromMarker / toMarker before they are constructed
noMarkers ==
    [m \in Modes |-> [exists |-> FALSE, added |-> FALSE, onMap |-> 0,
                      latlng |-> <<>>]]

\* L.marker(DEFAULT_CENTER, ...) twice; fromMarkerAdded = toMarkerAdded = false
newMarkers ==
    [m \in Modes |-> [exists |-> TRUE, added |-> FALSE, onMap |-> 0,
                      latlng |-> DEFAULT_CENTER]]

\* the click handler placing a marker on its first click only
placeMarkerFirstOnly(ms, mode, latlng) ==
    LET m == IF mode = "from" THEN "from" ELSE "to"
    IN  IF ms[m].added THEN ms
        ELSE [ms EXCEPT ![m] = [exists |-> TRUE, added |-> TRUE,
                                onMap |-> ms[m].onMap + 1, latlng |-> latlng]]

\* the click handler moving both markers to the clicked point
placeMarkerBoth(ms, mode, latlng) ==
    [m \in Modes |->
        IF m = mode
        THEN [exists |-> TRUE, added |-> TRUE,
              onMap |-> IF ~ms[m].added THEN ms[m].onMap + 1 ELSE ms[m].onMap,
              latlng |-> latlng]
        ELSE [ms[m] EXCEPT !.latlng = latlng]]

\* the click handler without the fromMarkerAdded / toMarkerAdded test
placeMarkerAlwaysAdd(ms, mode, latlng) ==
    [ms EXCEPT ![mode] = [exists |-> TRUE, added |-> TRUE,
                          onMap |-> ms[mode].onMap + 1, latlng |-> latlng]]

\* lines 227-239: attach the current mode's marker on first use, then move it.
\* added is fromMarkerAdded / toMarkerAdded, onMap counts addTo(map) calls.
placeMarker(ms, mode, latlng) ==
    LET m == IF mode = "from" THEN "from" ELSE "to"
    IN  [ms EXCEPT ![m] = [exists |-> TRUE,
                           added |-> TRUE,
                           onMap |-> IF ~ms[m].added THEN ms[m].onMap + 1
                                     ELSE ms[m].onMap,
                           latlng |-> latlng]]

(***************************************************************************)
(* FormBinder: lines 146-189.  dom maps every field that exists in the     *)
(* page to its value; a field outside DOMAIN dom is a null querySelector   *)
(* result.                                                                 *)
(***************************************************************************)
LabelFields ==
    {"offerFromField", "offerToField", "requestFromField", "requestToField"}

CoordFields ==
    {"offerFromLat", "offerFromLng", "offerToLat", "offerToLng",
     "requestFromLat", "requestFromLng", "requestToLat", "requestToLng"}

AllFields == LabelFields \cup CoordFields

\* the fields of a page: all of them, or a page whose request form has no "to"
FieldSets ==
    { AllFields,
      AllFields \ {"requestToField", "requestToLat", "requestToLng"} }

\* setFieldValue without its guard, giving a missing field a value
setFieldValueUnguarded(d, field, value) ==
    [f \in DOMAIN d \cup {field} |-> IF f = field THEN value ELSE d[f]]

\* function setFieldValue(field, value) { if (field) field.value = value; }
setFieldValue(d, field, value) ==
    IF field \in DOMAIN d THEN [d EXCEPT ![field] = value] ELSE d

\* setLatLngInputs whose else branch writes the request form's "from" fields
setLatLngInputsCrossed(d, lat, lng, which) ==
    IF which = "from"
    THEN setFieldValue(setFieldValue(setFieldValue(setFieldValue(d,
             "offerFromLat", NumberToString(lat)),
             "offerFromLng", NumberToString(lng)),
             "requestFromLat", NumberToString(lat)),
             "requestFromLng", NumberToString(lng))
    ELSE setFieldValue(setFieldValue(setFieldValue(setFieldValue(d,
             "offerToLat", NumberToString(lat)),
             "offerToLng", NumberToString(lng)),
             "requestFromLat", NumberToString(lat)),
             "requestFromLng", NumberToString(lng))

\* function setLatLngInputs(lat, lng, which); field.value = number stores its text
setLatLngInputs(d, lat, lng, which) ==
    IF which = "from"
    THEN setFieldValue(setFieldValue(setFieldValue(setFieldValue(d,
             "offerFromLat", NumberToString(lat)),
             "offerFromLng", NumberToString(lng)),
             "requestFromLat", NumberToString(lat)),
             "requestFromLng", NumberToString(lng))
    ELSE setFieldValue(setFieldValue(setFieldValue(setFieldValue(d,
             "offerToLat", NumberToString(lat)),
             "offerToLng", NumberToString(lng)),
             "requestToLat", NumberToString(lat)),
             "requestToLng", NumberToString(lng))

\* a callback that also puts the label into the offer form's latitude field
labelCallbackIntoLat(d, mode, label) ==
    LET put(e, f) == IF f \in DOMAIN e THEN [e EXCEPT ![f] = label] ELSE e
    IN  IF mode = "from"
        THEN put(put(put(d, "offerFromField"), "requestFromField"),
                 "offerFromLat")
        ELSE put(put(put(d, "offerToField"), "requestToField"), "offerToLat")

\* a callback that leaves a place-name field alone once it holds a label
labelCallbackKeepFirst(d, mode, label) ==
    LET keep(e, f) == IF f \in DOMAIN e /\ e[f] = "" THEN [e EXCEPT ![f] = label]
                      ELSE e
    IN  IF mode = "from"
        THEN keep(keep(d, "offerFromField"), "requestFromField")
        ELSE keep(keep(d, "offerToField"), "requestToField")

\* the callback handed to reverseGeocode, lines 243-251; mode is the value
\* of currentMode the callback reads when it runs
labelCallback(d, mode, label) ==
    IF mode = "from"
    THEN setFieldValue(setFieldValue(d, "offerFromField", label),
                       "requestFromField", label)
    ELSE setFieldValue(setFieldValue(d, "offerToField", label),
                       "requestToField", label)

(***************************************************************************)
(* GeoLookupClient: reverseGeocode, lines 191-221.  A string of the JSON    *)
(* payload is <<s>> when present and <<>> when undefined.                  *)
(***************************************************************************)
Body(kind, hasAddress, village, town, city, display_name) ==
    [kind |-> kind, hasAddress |-> hasAddress, village |-> village,
     town |-> town, city |-> city, display_name |-> display_name]

\* no payload read yet
noBody == Body("none", FALSE, <<>>, <<>>, <<>>, <<>>)

\* res.json() rejects: the body is not JSON
malformedBody == Body("malformed", FALSE, <<>>, <<>>, <<>>, <<>>)

\* the body is the JSON text null
nullBody == Body("null", FALSE, <<>>, <<>>, <<>>, <<>>)

StrOpts(s) == {<<>>, <<"">>, <<s>>}

ObjectBodies ==
    {Body("object", TRUE, v, t, c, d) :
        v \in StrOpts("Osoitsa"), t \in StrOpts("Elin Pelin"),
        c \in StrOpts("Sofia"), d \in StrOpts("X, Y")}
    \cup {Body("object", FALSE, <<>>, <<>>, <<>>, d) : d \in StrOpts("X, Y")}

AllBodies == ObjectBodies \cup {malformedBody, nullBody}

\* the payloads the interactive specification draws from
SomeBodies ==
    { Body("object", TRUE, <<"Osoitsa">>, <<>>, <<>>, <<"X, Y">>),
      Body("object", FALSE, <<>>, <<>>, <<>>, <<>>),
      malformedBody,
      nullBody }

\* outcome of fetch(url): resolved with res.ok, resolved with !res.ok, rejected
FetchOutcomes == {"ok", "http", "network"}

\* JavaScript truthiness of an optional string
Truthy(x) == x # <<>> /\ x # <<"">>

\* a || b
JsOr(a, b) == IF Truthy(a) THEN a ELSE b

\* the fallback with longitude first
fallbackLabelSwapped(lat, lng) == toFixed5(lng) \o ", " \o toFixed5(lat)

\* `${lat.toFixed(5)}, ${lng.toFixed(5)}`
fallbackLabel(lat, lng) == toFixed5(lat) \o ", " \o toFixed5(lng)

\* the label with display_name tried before the address
labelOfDisplayFirst(data, lat, lng) ==
    LET address == IF data.hasAddress
                   THEN JsOr(JsOr(data.village, data.town), data.city)
                   ELSE <<>>
    IN  JsOr(JsOr(data.display_name, address), <<fallbackLabel(lat, lng)>>)[1]

\* lines 203-209: the label of a parsed payload object
labelOf(data, lat, lng) ==
    LET address == IF data.hasAddress
                   THEN JsOr(JsOr(data.village, data.town), data.city)
                   ELSE <<>>
    IN  JsOr(JsOr(address, data.display_name), <<fallbackLabel(lat, lng)>>)[1]

\* reverseGeocode(lat, lng, callback) up to fetch(url): one request, a pending
\* promise chain, no callback invocation yet
reverseGeocode(lat, lng) ==
    [url |-> <<NumberToString(lat), NumberToString(lng)>>,
     fetches |-> 1, stage |-> "fetch", body |-> noBody,
     callbacks |-> <<>>]

\* a .catch that only logs
catchHandlerSilent(g, lat, lng) == [g EXCEPT !.stage = "done"]

\* .catch((err) => ...), lines 215-220
catchHandler(g, lat, lng) ==
    [g EXCEPT !.stage = "done",
              !.callbacks = Append(@, fallbackLabel(lat, lng))]

\* fetch settles; .then((res) => ...), lines 196-201
onResponse(g, res, lat, lng) ==
    IF res = "ok"
    THEN [g EXCEPT !.stage = "json"]
    ELSE catchHandler(g, lat, lng)

\* a chain whose .catch also runs after the success branch called back
onDataThenCatch(g, body, lat, lng) ==
    IF body.kind = "object"
    THEN catchHandler([g EXCEPT !.body = body,
                                !.callbacks = Append(@, labelOf(body, lat, lng))],
                      lat, lng)
    ELSE catchHandler([g EXCEPT !.body = body], lat, lng)

\* res.json() settles; .then((data) => ...), lines 202-214.  A rejected
\* res.json() and the TypeError of reading null.address both reach .catch
onData(g, body, lat, lng) ==
    IF body.kind = "object"
    THEN [g EXCEPT !.stage = "done", !.body = body,
                   !.callbacks = Append(@, labelOf(body, lat, lng))]
    ELSE catchHandler([g EXCEPT !.body = body], lat, lng)

(***************************************************************************)
(* MapController: the DOMContentLoaded handler, lines 2-256.               *)
(***************************************************************************)
\* if (!mapEl || !window.L) return;   lines 6-9
guardReturns(el, lib) == ~el \/ ~lib

\* L.map(mapEl) at line 16 throws: L is not defined, the container is null,
\* or the container already holds a map
mapThrows(el, lib, busy) == ~lib \/ ~el \/ busy

\* the handler body without its try / catch
handlerRaisesUncaught(threw) == threw

\* try { ... } catch (err) { console.error(...) }, lines 3 and 253-255:
\* whether an exception thrown inside leaves the handler
handlerRaises(threw) == FALSE

\* map.on("click", ...) at line 223, the last statement of the try block
registerClick(m) == [m EXCEPT !.clickHandler = TRUE]

\* the page fields before any script wrote them
blankFields(F) == [f \in F |-> ""]

InitWith(env, buttonSets, fieldSets, feeds) ==
    /\ mapEl \in env
    /\ leaflet \in env
    /\ containerBusy \in BOOLEAN
    /\ \E feed \in feeds : ridesData = feed[1] /\ requestsData = feed[2]
    /\ btns \in buttonSets
    /\ pillActive \in SUBSET btns
    /\ dom \in {blankFields(F) : F \in fieldSets}
    /\ pc = "loading"
    /\ raised = FALSE
    /\ map = noMap
    /\ ridesLayer = <<>>
    /\ requestsLayer = <<>>
    /\ bounds = emptyBounds
    /\ btnHandlers = {}
    /\ currentMode = "unset"
    /\ markers = noMarkers
    /\ clicks = <<>>

Init == InitWith(BOOLEAN, SUBSET Modes, FieldSets, Feeds)

\* the handler stops at a throw: nothing after the throwing statement runs
InitFails(m, lines, pts, b) ==
    /\ pc' = "failed"
    /\ raised' = handlerRaises(TRUE)
    /\ map' = m
    /\ ridesLayer' = lines
    /\ requestsLayer' = pts
    /\ bounds' = b
    /\ UNCHANGED <<btnHandlers, pillActive, currentMode, markers>>

DOMContentLoaded ==
    /\ pc = "loading"
    /\ UNCHANGED <<envVars, dom, clicks>>
    /\ IF guardReturns(mapEl, leaflet)
       THEN /\ pc' = "disabled"
            /\ raised' = handlerRaises(FALSE)
            /\ UNCHANGED <<renderVars, btnHandlers, pillActive, currentMode,
                           markers>>
       ELSE IF mapThrows(mapEl, leaflet, containerBusy)
       THEN InitFails(noMap, <<>>, <<>>, emptyBounds)
       ELSE LET m1 == [setView(noMap, DEFAULT_CENTER, DEFAULT_ZOOM)
                          EXCEPT !.tiles = TRUE,
                                 !.groups = {"ridesLayer", "requestsLayer"}]
                rr == ridesForEach(arrayOrEmpty(ridesData), <<>>, emptyBounds)
                rq == requestsForEach(arrayOrEmpty(requestsData), <<>>,
                                      rr.bounds)
            IN  IF rr.threw
                THEN InitFails(m1, rr.lines, <<>>, rr.bounds)
                ELSE IF rq.threw
                THEN InitFails(m1, rr.lines, rq.markers, rq.bounds)
                ELSE /\ pc' = "ready"
                     /\ raised' = handlerRaises(FALSE)
                     /\ ridesLayer' = rr.lines
                     /\ requestsLayer' = rq.markers
                     /\ bounds' = rq.bounds
                     /\ map' = registerClick(fitIfValid(m1, rq.bounds))
                     /\ currentMode' = "from"
                     /\ btnHandlers' = btns
                     /\ pillActive' = updateModeUi(pillActive, btns, "from")
                     /\ markers' = newMarkers

\* fromBtn click listener, lines 133-136
FromBtnClick ==
    /\ "from" \in btnHandlers
    /\ currentMode' = "from"
    /\ pillActive' = updateModeUi(pillActive, btns, "from")
    /\ UNCHANGED <<envVars, pc, raised, renderVars, btnHandlers, markers, dom,
                   clicks>>

\* toBtn click listener, lines 139-142
ToBtnClick ==
    /\ "to" \in btnHandlers
    /\ currentMode' = "to"
    /\ pillActive' = updateModeUi(pillActive, btns, "to")
    /\ UNCHANGED <<envVars, pc, raised, renderVars, btnHandlers, markers, dom,
                   clicks>>

\* the click listener without its setLatLngInputs call
MapClickNoCoords(p) ==
    /\ map.clickHandler
    /\ markers' = placeMarker(markers, currentMode, p)
    /\ clicks' = Append(clicks,
                        [mode |-> currentMode, latlng |-> p, writes |-> <<>>,
                         geo |-> reverseGeocode(p[1], p[2])])
    /\ UNCHANGED <<envVars, pc, raised, renderVars, btnHandlers, pillActive,
                   currentMode, dom>>

\* a click listener that ignores clicks while a lookup is pending
MapClickWhenIdle(p) ==
    /\ map.clickHandler
    /\ \A k \in 1..Len(clicks) : clicks[k].geo.stage = "done"
    /\ markers' = placeMarker(markers, currentMode, p)
    /\ dom' = setLatLngInputs(dom, p[1], p[2], currentMode)
    /\ clicks' = Append(clicks,
                        [mode |-> currentMode, latlng |-> p,
                         writes |-> <<"coords">>,
                         geo |-> reverseGeocode(p[1], p[2])])
    /\ UNCHANGED <<envVars, pc, raised, renderVars, btnHandlers, pillActive,
                   currentMode>>

\* map click listener, lines 223-252, for a click at p = <<lat, lng>>
MapClick(p) ==
    /\ map.clickHandler
    /\ markers' = placeMarker(markers, currentMode, p)
    /\ dom' = setLatLngInputs(dom, p[1], p[2], currentMode)
    /\ clicks' = Append(clicks,
                        [mode |-> currentMode, latlng |-> p,
                         writes |-> <<"coords">>,
                         geo |-> reverseGeocode(p[1], p[2])])
    /\ UNCHANGED <<envVars, pc, raised, renderVars, btnHandlers, pillActive,
                   currentMode>>

\* click k's promise chain moved to g: run the click's callback on every label
\* the step handed to it, with currentMode as it is now
Settle(k, g) ==
    LET new == SubSeq(g.callbacks, Len(clicks[k].geo.callbacks) + 1,
                      Len(g.callbacks))
        RECURSIVE run(_, _)
        run(d, ls) == IF ls = <<>> THEN d
                      ELSE run(labelCallback(d, currentMode, Head(ls)), Tail(ls))
    IN  /\ dom' = run(dom, new)
        /\ clicks' = [clicks EXCEPT ![k].geo = g,
                                    ![k].writes = @ \o [i \in 1..Len(new) |->
                                                             "label"]]
        /\ UNCHANGED <<envVars, pc, raised, renderVars, btnHandlers,
                       pillActive, currentMode, markers>>

\* the fetch of click k settles with outcome res
FetchSettles(k, res) ==
    /\ k \in 1..Len(clicks)
    /\ clicks[k].geo.stage = "fetch"
    /\ Settle(k, onResponse(clicks[k].geo, res, clicks[k].latlng[1],
                            clicks[k].latlng[2]))

\* res.json() of click k settles with payload body
JsonSettles(k, body) ==
    /\ k \in 1..Len(clicks)
    /\ clicks[k].geo.stage = "json"
    /\ Settle(k, onData(clicks[k].geo, body, clicks[k].latlng[1],
                        clicks[k].latlng[2]))

\* where the model's clicks land: (42.8, 23.8) and (42.79, 23.79)
ClickPoints == {<<42800000, 23800000>>, <<42790000, 23790000>>}

Next ==
    \/ DOMContentLoaded
    \/ FromBtnClick
    \/ ToBtnClick
    \/ \E p \in ClickPoints : Len(clicks) < MaxClicks /\ MapClick(p)
    \/ \E k \in 1..MaxClicks, res \in FetchOutcomes : FetchSettles(k, res)
    \/ \E k \in 1..MaxClicks, body \in SomeBodies : JsonSettles(k, body)

Spec == Init /\ [][Next]_vars

(***************************************************************************)
(* The lookup alone: a page with every field and no mode buttons, every    *)
(* payload shape, and clicks whose coordinates round up, round down and    *)
(* round to a negative zero.                                               *)
(***************************************************************************)
GeoPoints ==
    { <<42800000, 23800000>>, <<42800004, 23799996>>, <<-4, 9999996>> }

FullPage == {<<Feed(TRUE, <<RideA>>), Feed(TRUE, <<RequestA>>)>>}

InitGeo == InitWith({TRUE}, {{}}, {AllFields}, FullPage)

NextGeo ==
    \/ DOMContentLoaded
    \/ \E p \in GeoPoints : Len(clicks) < MaxGeoClicks /\ MapClick(p)
    \/ \E k \in 1..MaxGeoClicks, res \in FetchOutcomes : FetchSettles(k, res)
    \/ \E k \in 1..MaxGeoClicks, body \in AllBodies : JsonSettles(k, body)

SpecGeo == InitGeo /\ [][NextGeo]_vars

(***************************************************************************)
(* Every outbound request eventually completes: the fetch settles, and the *)
(* body of an ok response is eventually read or found unreadable.  Checked *)
(* on the page that has the map, both mode buttons and every field, with   *)
(* every click at (42.8, 23.8).                                            *)
(***************************************************************************)
InitLive == InitWith({TRUE}, {Modes}, {AllFields}, FullPage)

LivePoints == {<<42800000, 23800000>>}

NextLive ==
    \/ DOMContentLoaded
    \/ FromBtnClick
    \/ ToBtnClick
    \/ \E p \in LivePoints : Len(clicks) < MaxClicks /\ MapClick(p)
    \/ \E k \in 1..MaxClicks, res \in FetchOutcomes : FetchSettles(k, res)
    \/ \E k \in 1..MaxClicks, body \in SomeBodies : JsonSettles(k, body)

RequestsComplete ==
    \A k \in 1..MaxClicks :
        /\ WF_vars(\E res \in FetchOutcomes : FetchSettles(k, res))
        /\ WF_vars(\E body \in SomeBodies : JsonSettles(k, body))

LiveSpec == InitLive /\ [][NextLive]_vars /\ RequestsComplete

(***************************************************************************)
(* The interactive page alone: the map, both mode buttons and every field,  *)
(* with the clicks, toggles and lookup outcomes of Next.                    *)
(***************************************************************************)
SpecFull == InitLive /\ [][Next]_vars

(***************************************************************************)
(* Pages that lack form fields: the map and both mode buttons, with every   *)
(* subset of the twelve fields present, clicked at (42.8, 23.8); the lookup *)
(* succeeds with a village, or fails at the fetch or at the body.           *)
(***************************************************************************)
MaxFieldClicks == 1

InitFields ==
    /\ mapEl = TRUE
    /\ leaflet = TRUE
    /\ containerBusy = FALSE
    /\ \E feed \in FullPage : ridesData = feed[1] /\ requestsData = feed[2]
    /\ btns = Modes
    /\ pillActive = {}
    /\ dom \in {blankFields(F) : F \in SUBSET AllFields}
    /\ pc = "loading"
    /\ raised = FALSE
    /\ map = noMap
    /\ ridesLayer = <<>>
    /\ requestsLayer = <<>>
    /\ bounds = emptyBounds
    /\ btnHandlers = {}
    /\ currentMode = "unset"
    /\ markers = noMarkers
    /\ clicks = <<>>

FieldBodies == {Body("object", TRUE, <<"Osoitsa">>, <<>>, <<>>, <<"X, Y">>),
                malformedBody}

NextFields ==
    \/ DOMContentLoaded
    \/ FromBtnClick
    \/ ToBtnClick
    \/ \E p \in LivePoints : Len(clicks) < MaxFieldClicks /\ MapClick(p)
    \/ \E k \in 1..MaxFieldClicks, res \in {"ok", "network"} : FetchSettles(k, res)
    \/ \E k \in 1..MaxFieldClicks, body \in FieldBodies : JsonSettles(k, body)

SpecFields == InitFields /\ [][NextFields]_vars

(***************************************************************************)
(* The rendering alone: the load handler on a page with the map, for every  *)
(* rides collection of up to MaxRides records and every requests            *)
(* collection of up to MaxRequests records.  The ride records are one per   *)
(* subset of present coordinates, one with zero coordinates, and null; the  *)
(* request records likewise, with the other fields filled or missing.       *)
(***************************************************************************)
CoordNames == {"from_lat", "from_lng", "to_lat", "to_lng"}

Opt(present, v) == IF present THEN <<v>> ELSE <<>>

RideZero == Ride(<<0>>, <<23700000>>, <<42900000>>, <<0>>, "other")

RenderRides ==
    {Ride(Opt("from_lat" \in m, 42700000), Opt("from_lng" \in m, 23700000),
          Opt("to_lat" \in m, 42900000), Opt("to_lng" \in m, 23650000), "work") :
        m \in SUBSET CoordNames}
    \cup {RideZero, NullRide}

RenderRequests ==
    { Request(<<42600000>>, <<23800000>>),
      RequestFilled(<<42950000>>, <<23600000>>),
      Request(<<>>, <<23800000>>),
      RequestFilled(<<42950000>>, <<>>),
      Request(<<0>>, <<0>>),
      NullRequest }

SeqsUpTo(S, n) == UNION {[1..k -> S] : k \in 0..n}

RenderFeeds ==
    {<<Feed(TRUE, rs), Feed(TRUE, qs)>> :
        rs \in SeqsUpTo(RenderRides, MaxRides),
        qs \in SeqsUpTo(RenderRequests, MaxRequests)}
    \cup {<<Feed(FALSE, <<RideA>>), Feed(FALSE, <<RequestA>>)>>}

InitRender == InitWith({TRUE}, {{}}, {AllFields}, RenderFeeds)

NextRender == DOMContentLoaded

SpecRender == InitRender /\ [][NextRender]_vars

(***************************************************************************)
(* What the properties below read.  The decimal texts are written out, not  *)
(* computed, so that the conversions of the model are checked against them. *)
(***************************************************************************)
\* String(v) of the coordinates the clicks use
DecimalText(v) ==
    CASE v = 42800000 -> "42.8"
      [] v = 23800000 -> "23.8"
      [] v = 42790000 -> "42.79"
      [] v = 23790000 -> "23.79"
      [] v = 42800004 -> "42.800004"
      [] v = 23799996 -> "23.799996"
      [] v = -4 -> "-0.000004"
      [] v = 9999996 -> "9.999996"

\* v.toFixed(5) of the coordinates the clicks use
Fixed5Text(v) ==
    CASE v = 42800000 -> "42.80000"
      [] v = 23800000 -> "23.80000"
      [] v = 42790000 -> "42.79000"
      [] v = 23790000 -> "23.79000"
      [] v = 42800004 -> "42.80000"
      [] v = 23799996 -> "23.80000"
      [] v = -4 -> "-0.00000"
      [] v = 9999996 -> "10.00000"

\* "{lat}, {lng}" with 5 decimals
NumericFallback(p) == Fixed5Text(p[1]) \o ", " \o Fixed5Text(p[2])

\* the place-name fields of a mode
PlaceFields(m) ==
    IF m = "from" THEN {"offerFromField", "requestFromField"}
    ELSE {"offerToField", "requestToField"}

\* the latitude / longitude fields of a mode
LatFields(m) ==
    IF m = "from" THEN {"offerFromLat", "requestFromLat"}
    ELSE {"offerToLat", "requestToLat"}

LngFields(m) ==
    IF m = "from" THEN {"offerFromLng", "requestFromLng"}
    ELSE {"offerToLng", "requestToLng"}

Clicked == 1..Len(clicks)

\* this step is a map click: it appends the click Len(clicks) + 1
ClickStep == Len(clicks') = Len(clicks) + 1

\* this step runs click k's continuation
LabelStep(k) ==
    /\ Len(clicks') = Len(clicks)
    /\ Len(clicks'[k].geo.callbacks) > Len(clicks[k].geo.callbacks)

\* the label handed to click k's continuation (k has one)
LabelOfClick(k) == clicks[k].geo.callbacks[Len(clicks[k].geo.callbacks)]

Delivered(k) == clicks[k].geo.callbacks # <<>>

\* the lookup of click k failed: its fetch or its body did not yield an object
Failed(k) == clicks[k].geo.stage = "done" /\ clicks[k].geo.body.kind # "object"

(***************************************************************************)
(* C1: the label resolved for a click is written to the place-name fields   *)
(* of the mode that was current when the click happened, whatever mode      *)
(* toggles and clicks came in between, and to no other field.               *)
(***************************************************************************)
C1_LabelToClickMode ==
    [][\A k \in Clicked :
          LabelStep(k) =>
              \A f \in DOMAIN dom :
                  dom'[f] = IF f \in PlaceFields(clicks[k].mode)
                            THEN clicks'[k].geo.callbacks[1]
                            ELSE dom[f]]_vars

(***************************************************************************)
(* C3: a click writes its coordinates in the click step itself, when its    *)
(* label is not yet written; so whenever a click's label has been written,  *)
(* its coordinates were written before.                                     *)
(***************************************************************************)
C3_CoordsBeforeLabel ==
    /\ [][ClickStep =>
            LET c == clicks'[Len(clicks')]
            IN  /\ c.writes = <<"coords">>
                /\ c.geo.callbacks = <<>>
                /\ \A f \in DOMAIN dom :
                      /\ f \in LatFields(c.mode) => dom'[f] = DecimalText(c.latlng[1])
                      /\ f \in LngFields(c.mode) => dom'[f] = DecimalText(c.latlng[2])]_vars
    /\ [](\A k \in Clicked :
             \A i \in 1..Len(clicks[k].writes) :
                 clicks[k].writes[i] = "label" =>
                     i > 1 /\ clicks[k].writes[1] = "coords")

\* a click whose label arrived after a slow lookup, with its coordinates in place
C3_Witness ==
    \E k \in Clicked :
        /\ clicks[k].writes = <<"coords", "label">>
        /\ clicks[k].geo.body.kind = "object"
        /\ Len(clicks) > k

(***************************************************************************)
(* C4: once the page is set up, exactly one of from / to is the current     *)
(* mode, the first current mode is from, and when both mode buttons exist   *)
(* exactly the button of the current mode is highlighted.                  *)
(***************************************************************************)
C4_OneModeActive ==
    /\ [](pc = "ready" =>
            /\ currentMode \in Modes
            /\ btns = Modes => pillActive = {currentMode})
    /\ [][pc = "loading" /\ pc' = "ready" => currentMode' = "from"]_vars

\* mode "to" after a click, on a page whose buttons both exist
C4_Witness ==
    /\ pc = "ready"
    /\ btns = Modes
    /\ currentMode = "to"
    /\ pillActive = {"to"}
    /\ Len(clicks) >= 1

(***************************************************************************)
(* C5: a map click in mode m moves marker m to the clicked point and leaves *)
(* the other marker's attachment and position as they were.                *)
(***************************************************************************)
C5_OnlyOwnMarkerMoves ==
    [][ClickStep =>
          /\ markers'[currentMode].latlng = clicks'[Len(clicks')].latlng
          /\ markers'[Other(currentMode)] = markers[Other(currentMode)]]_vars

\* from-click at (42.80, 23.80), then to-click at (42.79, 23.79)
C5_Witness ==
    /\ Len(clicks) = 2
    /\ clicks[1].mode = "from" /\ clicks[2].mode = "to"
    /\ markers["from"].added /\ markers["from"].latlng = <<42800000, 23800000>>
    /\ markers["to"].added /\ markers["to"].latlng = <<42790000, 23790000>>

(***************************************************************************)
(* C6: each marker is attached to the map at most once, exactly once when   *)
(* its mode was clicked, by the first click in its mode; later clicks only  *)
(* move it, and an attached marker stays attached.                         *)
(***************************************************************************)
C6_AttachedOnce ==
    /\ [](\A m \in Modes :
             /\ markers[m].onMap <= 1
             /\ markers[m].onMap = 1 <=> \E k \in Clicked : clicks[k].mode = m
             /\ markers[m].added <=> markers[m].onMap = 1)
    /\ [][\A m \in Modes :
             markers[m].onMap = 1 =>
                 /\ markers'[m].onMap = 1
                 /\ markers'[m].exists
                 /\ ClickStep /\ currentMode = m =>
                        markers'[m].latlng = clicks'[Len(clicks')].latlng]_vars

\* two clicks in mode from at different points: attached once, moved
C6_Witness ==
    /\ Len(clicks) = 2
    /\ clicks[1].mode = "from" /\ clicks[2].mode = "from"
    /\ clicks[1].latlng # clicks[2].latlng
    /\ markers["from"].onMap = 1
    /\ markers["from"].latlng = clicks[2].latlng

(***************************************************************************)
(* C7: a click in mode m writes the clicked lat and lng into the offer and  *)
(* the request form's mode-m coordinate fields and changes no other field   *)
(* (the other mode's coordinate fields included), so both forms' mode-m     *)
(* coordinate fields that exist hold the same pair after the click.         *)
(***************************************************************************)
C7_CoordsToBothForms ==
    [][ClickStep =>
          LET c == clicks'[Len(clicks')]
          IN  \A f \in DOMAIN dom :
                  dom'[f] = IF f \in LatFields(currentMode)
                            THEN DecimalText(c.latlng[1])
                            ELSE IF f \in LngFields(currentMode)
                            THEN DecimalText(c.latlng[2])
                            ELSE dom[f]]_vars

\* after a from-click and a to-click both forms hold both pairs
C7_Witness ==
    /\ DOMAIN dom = AllFields
    /\ dom["offerFromLat"] = "42.8" /\ dom["requestFromLat"] = "42.8"
    /\ dom["offerFromLng"] = "23.8" /\ dom["requestFromLng"] = "23.8"
    /\ dom["offerToLat"] = "42.79" /\ dom["requestToLat"] = "42.79"
    /\ dom["offerToLng"] = "23.79" /\ dom["requestToLng"] = "23.79"

(***************************************************************************)
(* C2: whatever the outcome of a click's request (success, non-success      *)
(* status, network error, unreadable payload), the click's continuation is  *)
(* eventually invoked with a label, provided the request completes; no      *)
(* lookup ends without a label having been delivered.                       *)
(***************************************************************************)
C2_LabelAlwaysDelivered ==
    /\ \A k \in 1..MaxClicks :
           (Len(clicks) >= k) ~> (Len(clicks) >= k /\ Delivered(k))
    /\ [](\A k \in Clicked : clicks[k].geo.stage = "done" => Delivered(k))

\* a label delivered although the payload could not be parsed
C2_Witness ==
    \E k \in Clicked :
        clicks[k].geo.body.kind = "malformed" /\ Delivered(k)

(***************************************************************************)
(* C8: on a successful response the label is the first non-empty value of   *)
(* address.village, address.town, address.city, display_name, and the       *)
(* numeric fallback "{lat}, {lng}" with 5 decimals when there is none; for  *)
(* every combination of present, empty and absent fields, the address       *)
(* object present or not.                                                   *)
(***************************************************************************)
NonEmpty(x) == x # <<>> /\ x[1] # ""

RECURSIVE FirstNonEmpty(_, _)
FirstNonEmpty(xs, default) ==
    IF xs = <<>> THEN default
    ELSE IF NonEmpty(Head(xs)) THEN Head(xs)[1]
    ELSE FirstNonEmpty(Tail(xs), default)

C8_LabelPriority ==
    \A k \in Clicked :
        LET g == clicks[k].geo
            candidates == IF g.body.hasAddress
                          THEN <<g.body.village, g.body.town, g.body.city,
                                 g.body.display_name>>
                          ELSE <<g.body.display_name>>
        IN  g.stage = "done" /\ g.body.kind = "object" =>
                g.callbacks =
                    <<FirstNonEmpty(candidates, NumericFallback(clicks[k].latlng))>>

\* an address with only a city wins over display_name
C8_Witness ==
    \E k \in Clicked :
        /\ clicks[k].geo.body.kind = "object"
        /\ clicks[k].geo.body.hasAddress
        /\ clicks[k].geo.body.village = <<"">>
        /\ clicks[k].geo.body.town = <<>>
        /\ clicks[k].geo.body.city = <<"Sofia">>
        /\ clicks[k].geo.body.display_name = <<"X, Y">>
        /\ clicks[k].geo.callbacks = <<"Sofia">>

(***************************************************************************)
(* C9: a failed lookup (non-2xx status, network error, payload that cannot  *)
(* be parsed or read) delivers the numeric fallback of the click's own      *)
(* coordinates; each click issues exactly one request, for its own          *)
(* coordinates, and a finished lookup never runs again.                     *)
(***************************************************************************)
C9_FailureIsTerminal ==
    /\ [](\A k \in Clicked :
             /\ clicks[k].geo.fetches = 1
             /\ clicks[k].geo.url = <<DecimalText(clicks[k].latlng[1]),
                                      DecimalText(clicks[k].latlng[2])>>
             /\ Failed(k) =>
                    clicks[k].geo.callbacks = <<NumericFallback(clicks[k].latlng)>>)
    /\ [][\A k \in Clicked :
             clicks[k].geo.stage = "done" => clicks'[k] = clicks[k]]_vars

\* a click at (42.800004, 23.799996) whose fetch failed outright
C9_Witness ==
    \E k \in Clicked :
        /\ clicks[k].latlng = <<42800004, 23799996>>
        /\ clicks[k].geo.stage = "done"
        /\ clicks[k].geo.body.kind = "none"
        /\ clicks[k].geo.callbacks = <<"42.80000, 23.80000">>
        /\ dom["offerFromField"] = "42.80000, 23.80000"

(***************************************************************************)
(* C10: when the map container or the mapping library is missing at page    *)
(* load, the handler returns without raising, creates no map, renders no    *)
(* layer, registers no mode or click handler, and no field or marker ever   *)
(* changes; and no exception thrown during initialization leaves the load   *)
(* handler.                                                                 *)
(***************************************************************************)
C10_SilentWithoutMap ==
    /\ ~raised
    /\ (pc # "loading" /\ (~mapEl \/ ~leaflet)) =>
           /\ pc = "disabled"
           /\ map = noMap
           /\ ridesLayer = <<>> /\ requestsLayer = <<>>
           /\ btnHandlers = {}
           /\ markers = noMarkers
           /\ clicks = <<>>
           /\ \A f \in DOMAIN dom : dom[f] = ""
           /\ ~ENABLED Next

\* the library loaded but the page has no map container
C10_Witness == pc = "disabled" /\ ~mapEl /\ leaflet

(***************************************************************************)
(* What the rendering properties read: the records handed to the page and  *)
(* the coordinates plotted on the two overlays.                            *)
(***************************************************************************)
RideRecords == IF ridesData.isArray THEN ridesData.items ELSE <<>>

RequestRecords == IF requestsData.isArray THEN requestsData.items ELSE <<>>

\* every element is a record (none is null)
AllRecords(rs) == \A i \in 1..Len(rs) : ~rs[i].isNull

\* the positions of the records that have every coordinate in names
WithCoords(rs, names) ==
    {i \in 1..Len(rs) : \A n \in names : rs[i][n] # <<>>}

Plotted ==
    {ridesLayer[j].from : j \in 1..Len(ridesLayer)}
    \cup {ridesLayer[j].to : j \in 1..Len(ridesLayer)}
    \cup {requestsLayer[j].at : j \in 1..Len(requestsLayer)}

(***************************************************************************)
(* C11: for every rides collection, the rides overlay holds as many lines   *)
(* as there are ride records with from_lat, from_lng, to_lat and to_lng all *)
(* present, each line joining such a record's endpoints; a record missing   *)
(* any of the four adds no line and no coordinate to the bounds.            *)
(***************************************************************************)
C11_LinePerFullRide ==
    (map.created /\ AllRecords(RideRecords)) =>
        LET full == WithCoords(RideRecords, CoordNames)
        IN  /\ Len(ridesLayer) = Cardinality(full)
            /\ \A j \in 1..Len(ridesLayer) :
                   \E i \in full :
                       /\ ridesLayer[j].from = <<RideRecords[i].from_lat[1],
                                                 RideRecords[i].from_lng[1]>>
                       /\ ridesLayer[j].to = <<RideRecords[i].to_lat[1],
                                               RideRecords[i].to_lng[1]>>
            /\ bounds.valid =>
                   /\ {bounds.sw[1], bounds.ne[1]} \subseteq {p[1] : p \in Plotted}
                   /\ {bounds.sw[2], bounds.ne[2]} \subseteq {p[2] : p \in Plotted}

\* a ride lacking only to_lng next to a ride at latitude 0: one line
C11_Witness ==
    /\ pc = "ready"
    /\ Len(RideRecords) = 2
    /\ WithCoords(RideRecords, CoordNames \ {"to_lng"}) = {1, 2}
    /\ RideRecords[1].to_lng = <<>>
    /\ RideRecords[2] = RideZero
    /\ Len(ridesLayer) = 1
    /\ ridesLayer[1].from = <<0, 23700000>>

(***************************************************************************)
(* C12: for every requests collection, each request record with from_lat    *)
(* and from_lng present adds exactly one marker to the requests overlay,    *)
(* whichever other fields are missing, and a record missing either adds     *)
(* none.                                                                    *)
(***************************************************************************)
C12_MarkerPerLocatedRequest ==
    (map.created /\ AllRecords(RideRecords) /\ AllRecords(RequestRecords)) =>
        LET located == WithCoords(RequestRecords, {"from_lat", "from_lng"})
        IN  /\ Len(requestsLayer) = Cardinality(located)
            /\ \A j \in 1..Len(requestsLayer) :
                   \E i \in located :
                       requestsLayer[j].at = <<RequestRecords[i].from_lat[1],
                                               RequestRecords[i].from_lng[1]>>

\* a request with nothing but its origin still gets its marker
C12_Witness ==
    /\ pc = "ready"
    /\ RequestRecords = <<Request(<<42600000>>, <<23800000>>)>>
    /\ Len(requestsLayer) = 1
    /\ requestsLayer[1].at = <<42600000, 23800000>>
    /\ requestsLayer[1].popup.passenger = "Patnik"
    /\ requestsLayer[1].popup.tel = ""

(***************************************************************************)
(* C13: after rendering, the viewport is fit to the bounds exactly when at  *)
(* least one coordinate was plotted; the fitted bounds contain every ride   *)
(* endpoint and request origin plotted; with nothing plotted the map stays  *)
(* at the default center (42.78, 23.78) and zoom 12.                        *)
(***************************************************************************)
C13_FitIffPlotted ==
    pc = "ready" =>
        /\ map.view.kind = "fitBounds" <=> Plotted # {}
        /\ Plotted # {} =>
               /\ map.view.box.valid
               /\ \A p \in Plotted :
                      /\ map.view.box.sw[1] <= p[1] /\ p[1] <= map.view.box.ne[1]
                      /\ map.view.box.sw[2] <= p[2] /\ p[2] <= map.view.box.ne[2]
        /\ Plotted = {} =>
               /\ map.view.kind = "setView"
               /\ map.view.center = <<42780000, 23780000>>
               /\ map.view.zoom = 12

\* a ride and a request plotted: the box spans all three points
C13_Witness ==
    /\ pc = "ready"
    /\ Len(ridesLayer) = 1 /\ Len(requestsLayer) = 1
    /\ Cardinality(Plotted) = 3
    /\ map.view.kind = "fitBounds"
    /\ map.view.box.sw = <<42600000, 23650000>>
    /\ map.view.box.ne = <<42900000, 23800000>>

\* the most recent click made in mode m, 0 when there is none
LastIn(m) ==
    LET S == {k \in Clicked : clicks[k].mode = m}
    IN  IF S = {} THEN 0 ELSE CHOOSE k \in S : \A j \in S : j <= k

\* the lookup of click k has not delivered its label yet
InFlight(k) == clicks[k].geo.stage # "done"

\* some step of click k's promise chain can be taken
CanSettle(k) ==
    \/ ENABLED (\E res \in FetchOutcomes : FetchSettles(k, res))
    \/ ENABLED (\E body \in SomeBodies : JsonSettles(k, body))

(***************************************************************************)
(* C14: of two clicks j < k made in the same mode m, with m the current     *)
(* mode, either lookup can settle while both are in flight; each label that *)
(* arrives replaces the content of the place-name fields of m, so these     *)
(* hold the label that arrived last, while the coordinate fields and the    *)
(* marker of m keep the point of the later click.  The place-name field can *)
(* so hold the earlier click's label next to the later click's coordinates. *)
(***************************************************************************)
C14_LastArrivalWins ==
    /\ [](\A j, k \in Clicked :
             (j < k /\ clicks[j].mode = clicks[k].mode
                    /\ InFlight(j) /\ InFlight(k)) =>
                 CanSettle(j) /\ CanSettle(k))
    /\ [][\A j, k \in Clicked :
             (j < k /\ clicks[j].mode = currentMode
                    /\ k = LastIn(currentMode)) =>
                 \A i \in {j, k} :
                     LabelStep(i) =>
                         \A f \in DOMAIN dom :
                             /\ f \in PlaceFields(currentMode) =>
                                    dom'[f] = clicks'[i].geo.callbacks[1]
                             /\ f \in LatFields(currentMode) =>
                                    dom'[f] = DecimalText(clicks[k].latlng[1])
                             /\ f \in LngFields(currentMode) =>
                                    dom'[f] = DecimalText(clicks[k].latlng[2])
                             /\ markers'[currentMode].latlng = clicks[k].latlng]_vars

\* two from-clicks at different points, both lookups failed, the second
\* label arrived first: the first click's label beside the second's point
C14_Witness ==
    /\ Len(clicks) = 2
    /\ clicks[1].mode = "from" /\ clicks[2].mode = "from"
    /\ clicks[1].latlng = <<42800000, 23800000>>
    /\ clicks[2].latlng = <<42790000, 23790000>>
    /\ Delivered(1) /\ Delivered(2)
    /\ DOMAIN dom = AllFields
    /\ dom["offerToField"] = "" /\ dom["requestToField"] = ""
    /\ dom["offerFromField"] = "42.80000, 23.80000"
    /\ dom["requestFromField"] = "42.80000, 23.80000"
    /\ dom["offerFromLat"] = "42.79" /\ dom["offerFromLng"] = "23.79"
    /\ dom["requestFromLat"] = "42.79" /\ dom["requestFromLng"] = "23.79"
    /\ markers["from"].latlng = <<42790000, 23790000>>

\* the lookups that have not delivered a label
Pending == {k \in Clicked : InFlight(k)}

(***************************************************************************)
(* C15: once the page is set up, whatever lookups are pending, the map      *)
(* click listener can run at every point and each mode button that exists   *)
(* can be activated; a click made while lookups are pending moves the       *)
(* marker of the current mode, writes the coordinate fields and issues one  *)
(* new lookup for the clicked point, leaving the pending ones pending; an   *)
(* activation makes its mode the current one.                               *)
(***************************************************************************)
C15_PendingNeverBlocks ==
    /\ [](pc = "ready" =>
            /\ \A p \in ClickPoints : ENABLED MapClick(p)
            /\ "from" \in btns => ENABLED (FromBtnClick /\ currentMode' = "from")
            /\ "to" \in btns => ENABLED (ToBtnClick /\ currentMode' = "to"))
    /\ [][ClickStep =>
            LET c == clicks'[Len(clicks')]
            IN  /\ markers'[currentMode].added
                /\ markers'[currentMode].latlng = c.latlng
                /\ \A f \in DOMAIN dom :
                      /\ f \in LatFields(currentMode) =>
                             dom'[f] = DecimalText(c.latlng[1])
                      /\ f \in LngFields(currentMode) =>
                             dom'[f] = DecimalText(c.latlng[2])
                /\ c.geo.stage = "fetch" /\ c.geo.fetches = 1
                /\ c.geo.url = <<DecimalText(c.latlng[1]), DecimalText(c.latlng[2])>>
                /\ \A k \in Pending : clicks'[k] = clicks[k]]_vars

\* a from-click whose fetch never settled, then a toggle and a to-click that
\* took effect, with both lookups pending and further events possible
C15_Witness ==
    /\ Len(clicks) = 2
    /\ Pending = {1, 2}
    /\ clicks[1].geo.stage = "fetch"
    /\ clicks[1].mode = "from" /\ clicks[2].mode = "to"
    /\ currentMode = "to" /\ pillActive = {"to"}
    /\ markers["to"].added /\ markers["to"].latlng = clicks[2].latlng
    /\ DOMAIN dom = AllFields
    /\ dom["offerToLat"] = DecimalText(clicks[2].latlng[1])
    /\ dom["requestToLng"] = DecimalText(clicks[2].latlng[2])
    /\ ENABLED MapClick(<<42800000, 23800000>>)
    /\ ENABLED FromBtnClick

\* what an activation of the button of mode m must leave alone
ToggleFrame ==
    UNCHANGED <<envVars, pc, raised, renderVars, btnHandlers, markers, dom,
                clicks>>

(***************************************************************************)
(* C16: a step of a mode button's listener sets the current mode to the     *)
(* button's mode and the highlight to that button, and changes nothing      *)
(* else: markers (position, attachment), form fields and lookups stay as    *)
(* they were; when the button's mode is already current, no variable        *)
(* changes at all.                                                         *)
(***************************************************************************)
C16_ToggleOnlyMode ==
    [][/\ FromBtnClick =>
             /\ ToggleFrame
             /\ currentMode' = "from"
             /\ btns = Modes => pillActive' = {"from"}
             /\ currentMode = "from" => UNCHANGED vars
       /\ ToBtnClick =>
             /\ ToggleFrame
             /\ currentMode' = "to"
             /\ btns = Modes => pillActive' = {"to"}
             /\ currentMode = "to" => UNCHANGED vars
       /\ (currentMode' # currentMode /\ pc = "ready") =>
             FromBtnClick \/ ToBtnClick]_vars

\* mode to: toggled after a from-click whose marker, coordinates and pending
\* lookup are all as the click left them
C16_Witness ==
    /\ currentMode = "to" /\ pillActive = {"to"} /\ btns = Modes
    /\ Len(clicks) = 1
    /\ clicks[1].mode = "from" /\ InFlight(1)
    /\ clicks[1].latlng = <<42790000, 23790000>>
    /\ markers["from"].added /\ markers["from"].latlng = <<42790000, 23790000>>
    /\ ~markers["to"].added
    /\ DOMAIN dom = AllFields
    /\ dom["offerFromLat"] = "42.79" /\ dom["requestFromLng"] = "23.79"
    /\ dom["offerToLat"] = "" /\ dom["offerFromField"] = ""

(***************************************************************************)
(* C17: on a page with any subset of the twelve form fields missing, no     *)
(* handler raises; a click moves the marker of the current mode, issues one *)
(* lookup and writes the clicked pair to every coordinate field of that     *)
(* mode that exists; the arrival of a label writes it to every place-name   *)
(* field that exists of the mode current at the arrival (the click's mode   *)
(* unless the mode was toggled in between); a missing field is never        *)
(* written or created, and no other field changes.                          *)
(***************************************************************************)
C17_AbsentFieldsSkipped ==
    /\ [](~raised /\ pc # "failed")
    /\ [][/\ DOMAIN dom' = DOMAIN dom
          /\ (markers' # markers /\ pc = "ready") => ClickStep
          /\ ClickStep =>
                LET c == clicks'[Len(clicks')]
                IN  /\ markers'[currentMode].added
                    /\ markers'[currentMode].latlng = c.latlng
                    /\ c.geo.stage = "fetch" /\ c.geo.fetches = 1
                    /\ \A f \in DOMAIN dom :
                          dom'[f] = IF f \in LatFields(currentMode)
                                    THEN DecimalText(c.latlng[1])
                                    ELSE IF f \in LngFields(currentMode)
                                    THEN DecimalText(c.latlng[2])
                                    ELSE dom[f]
          /\ \A k \in Clicked :
                /\ InFlight(k) /\ ~InFlight(k)' => LabelStep(k)
                /\ LabelStep(k) =>
                      \A f \in DOMAIN dom :
                          dom'[f] = IF f \in PlaceFields(currentMode)
                                    THEN clicks'[k].geo.callbacks[1]
                                    ELSE dom[f]]_vars

\* a page without the request form's "to" name and latitude and the offer
\* form's "to" longitude, clicked in mode to, its label resolved
C17_Witness ==
    /\ DOMAIN dom = AllFields \ {"requestToField", "requestToLat", "offerToLng"}
    /\ Len(clicks) = 1
    /\ clicks[1].mode = "to" /\ currentMode = "to"
    /\ clicks[1].geo.stage = "done" /\ clicks[1].geo.body.kind = "object"
    /\ markers["to"].added /\ markers["to"].latlng = <<42800000, 23800000>>
    /\ dom["offerToField"] = "Osoitsa"
    /\ dom["offerToLat"] = "42.8" /\ dom["requestToLng"] = "23.8"
    /\ dom["offerFromField"] = "" /\ dom["offerFromLat"] = ""
    /\ ~raised

(***************************************************************************)
(* C18: once the page is set up, for each mode m: a marker m that is not    *)
(* attached to the map is at the default center (42.78, 23.78) and mode m   *)
(* was never clicked; an attached marker m is at the point of the most      *)
(* recent click made in mode m, and every existing lat / lng field of mode  *)
(* m, in the offer and in the request form, holds that point.               *)
(***************************************************************************)
C18_MarkerFollowsLastClick ==
    pc = "ready" =>
        \A m \in Modes :
            LET k == LastIn(m)
            IN  IF ~markers[m].added
                THEN /\ markers[m].latlng = <<42780000, 23780000>>
                     /\ markers[m].onMap = 0
                     /\ k = 0
                ELSE /\ k > 0
                     /\ markers[m].onMap = 1
                     /\ markers[m].latlng = clicks[k].latlng
                     /\ \A f \in DOMAIN dom :
                           /\ f \in LatFields(m) =>
                                  dom[f] = DecimalText(clicks[k].latlng[1])
                           /\ f \in LngFields(m) =>
                                  dom[f] = DecimalText(clicks[k].latlng[2])

\* two from-clicks, the later at (42.79, 23.79), and no to-click: marker to
\* unattached at the default center, marker from and the from fields at the
\* later point
C18_Witness ==
    /\ pc = "ready"
    /\ Len(clicks) = 2
    /\ clicks[1].mode = "from" /\ clicks[1].latlng = <<42800000, 23800000>>
    /\ clicks[2].mode = "from" /\ clicks[2].latlng = <<42790000, 23790000>>
    /\ ~markers["to"].added /\ markers["to"].latlng = DEFAULT_CENTER
    /\ markers["from"].added /\ markers["from"].latlng = <<42790000, 23790000>>
    /\ DOMAIN dom = AllFields
    /\ dom["offerFromLat"] = "42.79" /\ dom["requestFromLat"] = "42.79"
    /\ dom["offerFromLng"] = "23.79" /\ dom["requestFromLng"] = "23.79"
    /\ dom["offerToLat"] = "" /\ dom["requestToLng"] = ""
    /\ currentMode = "to"

\* how many times click k's continuation wrote a label
LabelWritesOf(k) ==
    Cardinality({i \in 1..Len(clicks[k].writes) : clicks[k].writes[i] = "label"})

RECURSIVE LabelWritesUpTo(_)
LabelWritesUpTo(n) ==
    IF n = 0 THEN 0 ELSE LabelWritesOf(n) + LabelWritesUpTo(n - 1)

(***************************************************************************)
(* C19: the continuation of a click runs at most once, whatever the outcome *)
(* of its request: it has run exactly once when the lookup is over and not  *)
(* at all before; once it has run, nothing of that click's lookup changes   *)
(* again; the label writes number at most the clicks.                       *)
(***************************************************************************)
C19_CallbackAtMostOnce ==
    /\ [](\A k \in Clicked :
             /\ Len(clicks[k].geo.callbacks) <= 1
             /\ Len(clicks[k].geo.callbacks) = 1 <=> clicks[k].geo.stage = "done"
             /\ LabelWritesOf(k) = Len(clicks[k].geo.callbacks))
    /\ [](LabelWritesUpTo(Len(clicks)) <= Len(clicks))
    /\ [][\A k \in Clicked : Delivered(k) => clicks'[k] = clicks[k]]_vars

\* a response whose body is an object with only display_name: the
\* continuation ran once, from the success branch, and the lookup is over
C19_Witness ==
    /\ Len(clicks) = 1
    /\ clicks[1].geo.stage = "done"
    /\ clicks[1].geo.body.kind = "object"
    /\ clicks[1].geo.callbacks = <<"X, Y">>
    /\ clicks[1].writes = <<"coords", "label">>
    /\ dom["offerFromField"] = "X, Y"
    /\ LabelWritesUpTo(Len(clicks)) = 1

\* this step is a step of some click's promise chain
SettleStep == Len(clicks') = Len(clicks) /\ clicks' # clicks

(***************************************************************************)
(* C20: a step of a lookup (its fetch settling, its body read, its label    *)
(* arriving, on success or failure) changes no field other than place-name  *)
(* fields, and leaves the current mode, the highlight, both markers and     *)
(* every click's mode and point as they were; so every lat / lng field      *)
(* holds after the step what it held before.                                *)
(***************************************************************************)
C20_ArrivalWritesNamesOnly ==
    [][SettleStep =>
          /\ currentMode' = currentMode
          /\ pillActive' = pillActive
          /\ markers' = markers
          /\ DOMAIN dom' = DOMAIN dom
          /\ \A f \in DOMAIN dom : dom'[f] # dom[f] => f \in LabelFields
          /\ \A f \in DOMAIN dom \cap CoordFields : dom'[f] = dom[f]
          /\ \A k \in Clicked :
                /\ clicks'[k].mode = clicks[k].mode
                /\ clicks'[k].latlng = clicks[k].latlng
                /\ ~LabelStep(k) => clicks'[k].writes = clicks[k].writes]_vars

\* a from-click whose lookup failed and a to-click whose lookup succeeded:
\* both labels written, both coordinate pairs and markers still in place
C20_Witness ==
    /\ Len(clicks) = 2
    /\ clicks[1].mode = "from" /\ clicks[1].latlng = <<42800000, 23800000>>
    /\ clicks[2].mode = "to" /\ clicks[2].latlng = <<42790000, 23790000>>
    /\ Failed(1) /\ Delivered(1)
    /\ clicks[2].geo.stage = "done" /\ clicks[2].geo.body.kind = "object"
    /\ DOMAIN dom = AllFields
    /\ dom["offerToField"] # ""
    /\ dom["offerFromLat"] = "42.8" /\ dom["offerFromLng"] = "23.8"
    /\ dom["requestFromLat"] = "42.8" /\ dom["requestFromLng"] = "23.8"
    /\ dom["offerToLat"] = "42.79" /\ dom["offerToLng"] = "23.79"
    /\ dom["requestToLat"] = "42.79" /\ dom["requestToLng"] = "23.79"
    /\ markers["from"].latlng = <<42800000, 23800000>>
    /\ markers["to"].latlng = <<42790000, 23790000>>
    /\ currentMode = "to"

=============================================================================
